---- MODULE Spec2Model ----
(***************************************************************************)
(* Model of filecrypt (src/src/lib.rs, src/src/main.rs): chunked          *)
(* AES-128-GCM file encryption with one worker thread per chunk.           *)
(*                                                                         *)
(* Bytes are small naturals.  The cipher is symbolic: a ciphertext object  *)
(* remembers the key and the plaintext it was sealed from and whether a    *)
(* bit of it has been flipped since; opening it succeeds exactly when the  *)
(* key matches and no bit was flipped.  Its length on disk is the          *)
(* plaintext length plus the 16-byte tag.                                  *)
(***************************************************************************)
EXTENDS Integers, Sequences, FiniteSets, TLC

\* ---------------------------------------------------------------- bounds
MaxFileLen == 50
MaxEdits == 1
MaxTamper == 1
MaxKeyChars == 25
MaxIdDigits == 33

\* ------------------------------------------------------ program constants
BlockLen == 16
TagLen == 16
KeyLen == 16
UuidSimpleLen == 32

\* usize arithmetic wraps modulo a power of two in builds without overflow
\* checks.  Every length of the model is far below the modulus, so the
\* quotients computed below are those of the 64-bit modulus.
UsizeModulus == 2 ^ 30

\* changes of file_len tried by the caller of decrypt_file
FileLenDeltas == {-16, -1, 1, 16}
\* chunk_len arguments tried by the callers
ChunkLens == {0, 8, 16, 24, 32, 48}
Keys == {1, 2}
Seeds == {0, 1}

NoMetadata == [file_len |-> 0, chunk_len |-> 0, chunks |-> << >>, valid |-> FALSE]
\* a path with no file, and a file created but not yet written
NoFile == [exists |-> FALSE, sealed |-> FALSE, key |-> 0, pt |-> << >>, flipped |-> FALSE]
EmptyFile == [exists |-> TRUE, sealed |-> FALSE, key |-> 0, pt |-> << >>, flipped |-> FALSE]
NoOutput == << -1 >>

\* ------------------------------------------------------------- helpers
Min(a, b) == IF a < b THEN a ELSE b

Zeros(n) == [i \in 1..n |-> 0]

\* contents of the input file: seed 0 is an all-zero file, seed 1 a file
\* whose bytes all differ from their neighbours
FileContent(len, seed) == [i \in 1..len |-> (i * seed) % 256]

WrapSub(a, b) == (a - b + UsizeModulus) % UsizeModulus

check_chunk_len_half_block(chunk_len) == chunk_len % 8 = 0

check_chunk_len(chunk_len) == chunk_len % BlockLen = 0

\* Chunk::encrypt: seals the buffer under the chunk's key
ChunkEncrypt(chunk, buffer) ==
    [exists |-> TRUE, sealed |-> TRUE, key |-> chunk.key, pt |-> buffer, flipped |-> FALSE]

\* Chunk::decrypt: TRUE when the tag verifies
ChunkDecryptOk(chunk, obj) == obj.sealed /\ obj.key = chunk.key /\ ~obj.flipped

ObjectLen(obj) == Len(obj.pt) + TagLen

\* check_num_chunks: the arithmetic faults it raises, and its verdict.
\* checks = TRUE is a build with overflow checks (a subtraction below zero
\* panics), FALSE a build where it wraps.
NumChunksUnderflow(file_len, chunk_len) ==
    file_len + chunk_len < 16 \/ chunk_len < 16

NumChunksDivZero(chunk_len) == WrapSub(chunk_len, 16) = 0

NumChunksExpected(file_len, chunk_len) ==
    WrapSub(file_len + chunk_len, 16) \div WrapSub(chunk_len, 16)

check_num_chunks_at_least(file_len, chunk_len, num_chunks, checks) ==
    IF checks /\ NumChunksUnderflow(file_len, chunk_len) THEN "panic_overflow"
    ELSE IF NumChunksDivZero(chunk_len) THEN "panic_div_zero"
    ELSE IF num_chunks < NumChunksExpected(file_len, chunk_len) THEN "err"
    ELSE "ok"

check_num_chunks(file_len, chunk_len, num_chunks, checks) ==
    IF checks /\ NumChunksUnderflow(file_len, chunk_len) THEN "panic_overflow"
    ELSE IF NumChunksDivZero(chunk_len) THEN "panic_div_zero"
    ELSE IF num_chunks # NumChunksExpected(file_len, chunk_len) THEN "err"
    ELSE "ok"

\* ------------------------------------------------------------- state
VARIABLES
    input,      \* bytes of the plaintext file given to the encryptor
    pc,         \* position of the orchestrating thread
    mode,       \* which encryptor ran: "none", "chunked", "unchunked"
    encArg,     \* chunk_len argument of encrypt_file
    encLen,     \* file_len accumulated by encrypt_file
    encChunks,  \* chunks pushed so far
    encThreads, \* encrypt workers: [chunk, buffer, done]
    encResult,  \* "none", "Ok", "ErrValidation"
    store,      \* the file at each object path of the output directory
    nextId,     \* ids handed out so far
    metadata,   \* Metadata handed to decrypt_file
    edits,      \* how many times the caller changed the Metadata
    tampers,    \* how many objects were changed on disk after encryption
    decThreads, \* decrypt workers: [chunk, state, data]
    decIdx,     \* i of the join loop (0-based)
    decLastLen, \* last_len
    out,        \* output file of decrypt_file: NoOutput or its bytes
    written,    \* slices written to the output file, in write order
    decResult,  \* "none", "Ok", "ErrValidation", "ErrIo", "Panic"
    decFaults,  \* arithmetic and slicing faults raised by decrypt_file
    io,         \* I/O operations performed so far
    ci,         \* ChunkIntermediate being parsed
    parsed      \* result of parsing ci

vars == << input, pc, mode, encArg, encLen, encChunks, encThreads, encResult, store,
           nextId, metadata, edits, tampers, decThreads, decIdx, decLastLen,
           out, written, decResult, decFaults, io, ci, parsed >>

encVars == << encArg, encLen, encChunks, encThreads, encResult >>
decVars == << decThreads, decIdx, decLastLen, out, written, decResult, decFaults >>
parseVars == << ci, parsed >>

Ids == 1..((MaxFileLen + BlockLen - 1) \div BlockLen)

\* Texts are kept by the features the decoders look at.  An id text: how
\* many digits it has, whether they are all hexadecimal, and whether it has
\* no hyphens, the four hyphens of the 8-4-4-4-12 form, or others.  A key
\* text: how many characters it has before the padding and whether they are
\* all of the base64 alphabet.  colons: the ':' separators of a command-line
\* chunk specifier.
IdTexts == [digits : 0..MaxIdDigits, hex : BOOLEAN,
            hyphens : {"none", "canonical", "misplaced"}]
KeyTexts == [chars : 0..MaxKeyChars, alphabet : BOOLEAN]
ChunkIntermediates == [id : IdTexts, key : KeyTexts, colons : 0..2]

NoCi == [id |-> [digits |-> 0, hex |-> TRUE, hyphens |-> "none"],
         key |-> [chars |-> 0, alphabet |-> TRUE], colons |-> 1]

\* Uuid::parse_str
UuidParseOk(id) == id.hex /\ id.digits = UuidSimpleLen /\ id.hyphens # "misplaced"

\* base64::decode: n characters carry 6n bits; a lone trailing character
\* carries no byte and is rejected
Base64DecodeOk(key) == key.alphabet /\ key.chars % 4 # 1
Base64DecodedLen(key) == (key.chars * 6) \div 8

\* Key::from_slice asserts that the slice has the key's length
KeyFromSliceOk(len) == len = KeyLen

\* impl TryFrom<ChunkIntermediate> for Chunk
ChunkTryFrom(c) ==
    IF ~UuidParseOk(c.id) THEN "ErrMalformedId"
    ELSE IF ~Base64DecodeOk(c.key) THEN "ErrMalformedKey"
    ELSE IF ~KeyFromSliceOk(Base64DecodedLen(c.key)) THEN "Panic"
    ELSE "Ok"

\* parse_d_args, one chunk specifier "<id>:<key>"
ParseChunkSpecifier(c) ==
    IF c.colons # 1 THEN "ErrMalformedSpecifier"
    ELSE IF ~UuidParseOk(c.id) THEN "ErrMalformedSpecifier"
    ELSE IF ~Base64DecodeOk(c.key) THEN "ErrMalformedSpecifier"
    ELSE IF ~KeyFromSliceOk(Base64DecodedLen(c.key)) THEN "Panic"
    ELSE "Ok"

Init ==
    /\ \E len \in 0..MaxFileLen, seed \in Seeds : input = FileContent(len, seed)
    /\ pc = "idle"
    /\ mode = "none"
    /\ encArg = 0
    /\ encLen = 0
    /\ encChunks = << >>
    /\ encThreads = << >>
    /\ encResult = "none"
    /\ store = [id \in Ids |-> NoFile]
    /\ nextId = 0
    /\ metadata = NoMetadata
    /\ edits = 0
    /\ tampers = 0
    /\ decThreads = << >>
    /\ decIdx = 0
    /\ decLastLen = 0
    /\ out = NoOutput
    /\ written = << >>
    /\ decResult = "none"
    /\ decFaults = {}
    /\ io = {}
    /\ ci = NoCi
    /\ parsed = "none"

\* ------------------------------------------------------- encrypt_file
\* lines 21-26: validation, open the input, create the output directory
EncryptStart(chunk_len) ==
    /\ pc = "idle"
    /\ encArg' = chunk_len
    /\ mode' = "chunked"
    /\ IF check_chunk_len(chunk_len)
       THEN /\ pc' = "enc_loop"
            /\ io' = io \cup {"open_input", "create_dir"}
            /\ UNCHANGED encResult
       ELSE /\ pc' = "enc_failed"
            /\ encResult' = "ErrValidation"
            /\ UNCHANGED io
    /\ UNCHANGED << input, encLen, encChunks, encThreads, store, nextId,
                    metadata, edits, tampers, decVars, parseVars >>

\* lines 27-59: one iteration of the read loop
EncryptReadChunk ==
    /\ pc = "enc_loop"
    /\ LET num_bytes == Min(encArg, Len(input) - encLen)
           buffer == SubSeq(input, encLen + 1, encLen + num_bytes)
                        \o Zeros(encArg - num_bytes)
       IN IF num_bytes = 0
          THEN /\ pc' = "enc_join"
               /\ UNCHANGED << encLen, encChunks, encThreads, store, nextId, io >>
          ELSE \E key \in Keys :
               LET chunk == [id |-> nextId + 1, key |-> key]
               IN /\ nextId' = nextId + 1
                  /\ encLen' = encLen + num_bytes
                  /\ encChunks' = Append(encChunks, chunk)
                  /\ store' = [store EXCEPT ![chunk.id] = EmptyFile]
                  /\ encThreads' = Append(encThreads,
                        [chunk |-> chunk, buffer |-> buffer, done |-> FALSE])
                  /\ io' = io \cup {"create_object", "spawn_encrypt"}
                  /\ UNCHANGED pc
    /\ UNCHANGED << input, mode, encArg, encResult, metadata, edits, tampers,
                    decVars, parseVars >>

\* lines 53-57: an encrypt worker seals its buffer and writes the object
EncryptWorker(t) ==
    /\ t \in DOMAIN encThreads
    /\ ~encThreads[t].done
    /\ store' = [store EXCEPT ![encThreads[t].chunk.id] =
                    ChunkEncrypt(encThreads[t].chunk, encThreads[t].buffer)]
    /\ encThreads' = [encThreads EXCEPT ![t].done = TRUE]
    /\ io' = io \cup {"write_object"}
    /\ UNCHANGED << input, pc, mode, encArg, encLen, encChunks, encResult, nextId,
                    metadata, edits, tampers, decVars, parseVars >>

\* lines 60-63: join every worker, return the Metadata
EncryptReturn ==
    /\ pc = "enc_join"
    /\ \A t \in DOMAIN encThreads : encThreads[t].done
    /\ pc' = "encrypted"
    /\ encResult' = "Ok"
    /\ metadata' = [file_len |-> encLen, chunk_len |-> encArg,
                    chunks |-> encChunks, valid |-> TRUE]
    /\ UNCHANGED << input, mode, encArg, encLen, encChunks, encThreads, store,
                    nextId, edits, tampers, decVars, io, parseVars >>

\* ---------------------------------------------- encrypt_file_unchunked
\* lines 66-96, sequential
PaddingBytesAlways(file_len) == 16 - (file_len % 16)

PaddingBytes(file_len) ==
    IF file_len % 16 = 0 THEN 0 ELSE 16 - (file_len % 16)

UnchunkedChunkLen(buffer_len) == buffer_len + 16

EncryptUnchunked ==
    /\ pc = "idle"
    /\ \E key \in Keys :
       LET file_len == Len(input)
           chunk == [id |-> nextId + 1, key |-> key]
           buffer == input \o Zeros(PaddingBytes(file_len))
           chunk_len == UnchunkedChunkLen(Len(buffer))
       IN /\ nextId' = nextId + 1
          /\ store' = [store EXCEPT ![chunk.id] = ChunkEncrypt(chunk, buffer)]
          /\ metadata' = [file_len |-> file_len, chunk_len |-> chunk_len,
                          chunks |-> << chunk >>, valid |-> TRUE]
          /\ encChunks' = << chunk >>
          /\ encLen' = file_len
    /\ pc' = "encrypted"
    /\ mode' = "unchunked"
    /\ encResult' = "Ok"
    /\ io' = io \cup {"open_input", "create_dir", "create_object", "write_object"}
    /\ UNCHANGED << input, encArg, encThreads, edits, tampers, decVars, parseVars >>

\* ------------------------------------------------ between the two calls
\* The caller of decrypt_file may pass any Metadata (the struct is
\* deserializable, lines 160-165): it changes a field of the one it got.
SetFileLen(file_len) ==
    /\ pc = "encrypted"
    /\ edits < MaxEdits
    /\ file_len \in 0..MaxFileLen
    /\ metadata' = [metadata EXCEPT !.file_len = file_len]
    /\ edits' = edits + 1
    /\ UNCHANGED << input, pc, mode, encVars, store, nextId, tampers, decVars,
                    io, parseVars >>

SetChunkLen(chunk_len) ==
    /\ pc = "encrypted"
    /\ edits < MaxEdits
    /\ chunk_len # metadata.chunk_len
    /\ metadata' = [metadata EXCEPT !.chunk_len = chunk_len]
    /\ edits' = edits + 1
    /\ UNCHANGED << input, pc, mode, encVars, store, nextId, tampers, decVars,
                    io, parseVars >>

Swap(s, i, j) == [s EXCEPT ![i] = s[j], ![j] = s[i]]

SwapChunks(i, j) ==
    /\ pc = "encrypted"
    /\ edits < MaxEdits
    /\ i \in DOMAIN metadata.chunks
    /\ j \in DOMAIN metadata.chunks
    /\ i < j
    /\ metadata' = [metadata EXCEPT !.chunks = Swap(metadata.chunks, i, j)]
    /\ edits' = edits + 1
    /\ UNCHANGED << input, pc, mode, encVars, store, nextId, tampers, decVars,
                    io, parseVars >>

DropLastChunk ==
    /\ pc = "encrypted"
    /\ edits < MaxEdits
    /\ metadata.chunks # << >>
    /\ metadata' = [metadata EXCEPT
                       !.chunks = SubSeq(metadata.chunks, 1, Len(metadata.chunks) - 1)]
    /\ edits' = edits + 1
    /\ UNCHANGED << input, pc, mode, encVars, store, nextId, tampers, decVars,
                    io, parseVars >>

\* The ciphertext objects are plain files of the input directory: anyone
\* may flip a bit of one, or remove it, before decrypt_file reads it.
FlipBit(id) ==
    /\ pc = "encrypted"
    /\ tampers < MaxTamper
    /\ store[id].sealed
    /\ ~store[id].flipped
    /\ store' = [store EXCEPT ![id].flipped = TRUE]
    /\ tampers' = tampers + 1
    /\ UNCHANGED << input, pc, mode, encVars, nextId, metadata, edits, decVars,
                    io, parseVars >>

RemoveObject(id) ==
    /\ pc = "encrypted"
    /\ tampers < MaxTamper
    /\ store[id].exists
    /\ store' = [store EXCEPT ![id] = NoFile]
    /\ tampers' = tampers + 1
    /\ UNCHANGED << input, pc, mode, encVars, nextId, metadata, edits, decVars,
                    io, parseVars >>

\* ------------------------------------------------------- decrypt_file
\* lines 125-129
LastLen(file_len, chunk_len) ==
    IF file_len % chunk_len = 0 THEN chunk_len ELSE file_len % chunk_len

\* line 131, in a build where the subtraction wraps
LastIdx(num_threads) == WrapSub(num_threads, 1)

SliceEveryChunk(data, i, last_idx, last_len) ==
    SubSeq(data, 1, Min(last_len, Len(data)))

\* lines 134-136: the slice of a joined buffer that is written
Slice(data, i, last_idx, last_len) ==
    IF i < last_idx THEN data ELSE SubSeq(data, 1, last_len)

SliceInRange(data, i, last_idx, last_len) ==
    i < last_idx \/ last_len <= Len(data)

SpawnDecryptWorkers(chunks) ==
    [t \in DOMAIN chunks |-> [chunk |-> chunks[t], state |-> "running", data |-> << >>]]

\* lines 103-131: validation, create the output file, spawn one worker per
\* chunk, compute last_len and last_idx.  checks: whether the build panics
\* on integer overflow.
DecryptStart(checks) ==
    /\ pc = "encrypted"
    /\ LET file_len == metadata.file_len
           chunk_len == metadata.chunk_len
           chunks == metadata.chunks
           verdict == check_num_chunks(file_len, chunk_len, Len(chunks), checks)
       IN IF ~check_chunk_len(chunk_len)
          THEN /\ decResult' = "ErrValidation"
               /\ pc' = "dec_done"
               /\ UNCHANGED << decThreads, decLastLen, out, decFaults, io >>
          ELSE IF verdict # "ok"
          THEN /\ decResult' = IF verdict = "err" THEN "ErrValidation" ELSE "Panic"
               /\ pc' = "dec_done"
               /\ decFaults' = decFaults
                     \cup (IF NumChunksUnderflow(file_len, chunk_len)
                           THEN {"sub_overflow"} ELSE {})
                     \cup (IF verdict = "panic_div_zero" THEN {"div_zero"} ELSE {})
               /\ UNCHANGED << decThreads, decLastLen, out, io >>
          ELSE /\ out' = << >>
               /\ decThreads' = SpawnDecryptWorkers(chunks)
               /\ io' = io \cup {"create_output"}
                           \cup (IF chunks # << >> THEN {"spawn_decrypt"} ELSE {})
               /\ IF chunk_len = 0
                  THEN /\ decResult' = "Panic"
                       /\ pc' = "dec_done"
                       /\ decFaults' = decFaults \cup {"sub_overflow", "div_zero"}
                       /\ UNCHANGED decLastLen
                  ELSE IF chunks = << >>
                  THEN /\ decLastLen' = LastLen(file_len, chunk_len)
                       /\ decFaults' = decFaults \cup {"sub_overflow"}
                       /\ decResult' = IF checks THEN "Panic" ELSE "none"
                       /\ pc' = IF checks THEN "dec_done" ELSE "dec_join"
                  ELSE /\ decLastLen' = LastLen(file_len, chunk_len)
                       /\ pc' = "dec_join"
                       /\ UNCHANGED << decResult, decFaults >>
    /\ UNCHANGED << input, mode, encVars, store, nextId, metadata, edits,
                    tampers, decIdx, written, parseVars >>

\* lines 117-122: a decrypt worker opens and reads its object and opens
\* the seal; a missing object is an I/O error, a seal that does not verify
\* makes the unwrap of line 213 panic
DecryptWorker(t) ==
    /\ t \in DOMAIN decThreads
    /\ decThreads[t].state = "running"
    /\ LET chunk == decThreads[t].chunk
           obj == store[chunk.id]
       IN decThreads' = [decThreads EXCEPT ![t] =
             IF ~obj.exists THEN [@ EXCEPT !.state = "err_io"]
             ELSE IF ChunkDecryptOk(chunk, obj)
                  THEN [@ EXCEPT !.state = "ok", !.data = obj.pt]
                  ELSE [@ EXCEPT !.state = "panic"]]
    /\ io' = io \cup {"open_object"}
    /\ UNCHANGED << input, pc, mode, encVars, store, nextId, metadata, edits,
                    tampers, decIdx, decLastLen, out, written, decResult,
                    decFaults, parseVars >>

JoinReturnsAtOnce(thread) == TRUE

\* line 133: thread.join() returns once the worker has finished
JoinReturns(thread) == thread.state # "running"

\* lines 132-139: one iteration of the join loop
DecryptJoin ==
    /\ pc = "dec_join"
    /\ decIdx < Len(decThreads)
    /\ LET thread == decThreads[decIdx + 1]
           last_idx == LastIdx(Len(decThreads))
       IN /\ JoinReturns(thread)
          /\ IF thread.state = "panic"
             THEN /\ decResult' = "Panic"
                  /\ pc' = "dec_done"
                  /\ decFaults' = decFaults \cup {"worker_panic"}
                  /\ UNCHANGED << decIdx, out, written, io >>
             ELSE IF thread.state = "err_io"
             THEN /\ decResult' = "ErrIo"
                  /\ pc' = "dec_done"
                  /\ UNCHANGED << decIdx, out, written, io, decFaults >>
             ELSE IF ~SliceInRange(thread.data, decIdx, last_idx, decLastLen)
             THEN /\ decResult' = "Panic"
                  /\ pc' = "dec_done"
                  /\ decFaults' = decFaults \cup {"slice_range"}
                  /\ UNCHANGED << decIdx, out, written, io >>
             ELSE LET slice == Slice(thread.data, decIdx, last_idx, decLastLen)
                  IN /\ out' = out \o slice
                     /\ written' = Append(written, slice)
                     /\ decIdx' = decIdx + 1
                     /\ io' = io \cup {"write_output"}
                     /\ UNCHANGED << pc, decResult, decFaults >>
    /\ UNCHANGED << input, mode, encVars, store, nextId, metadata, edits,
                    tampers, decThreads, decLastLen, parseVars >>

\* line 140
DecryptReturn ==
    /\ pc = "dec_join"
    /\ decIdx = Len(decThreads)
    /\ decResult' = "Ok"
    /\ pc' = "dec_done"
    /\ UNCHANGED << input, mode, encVars, store, nextId, metadata, edits,
                    tampers, decThreads, decIdx, decLastLen, out, written,
                    decFaults, io, parseVars >>

\* ------------------------------------------------- parsing a chunk
\* deserializing one chunk of a Metadata document
Deserialize ==
    /\ parsed = "none"
    /\ ci.colons = 1
    /\ parsed' = ChunkTryFrom(ci)
    /\ UNCHANGED << input, pc, mode, encVars, store, nextId, metadata, edits,
                    tampers, decVars, io, ci >>

\* one chunk specifier of the decrypt command line
ParseDArg ==
    /\ parsed = "none"
    /\ parsed' = ParseChunkSpecifier(ci)
    /\ UNCHANGED << input, pc, mode, encVars, store, nextId, metadata, edits,
                    tampers, decVars, io, ci >>

InitParse ==
    /\ input = << >>
    /\ pc = "idle"
    /\ mode = "none"
    /\ encArg = 0
    /\ encLen = 0
    /\ encChunks = << >>
    /\ encThreads = << >>
    /\ encResult = "none"
    /\ store = [id \in Ids |-> NoFile]
    /\ nextId = 0
    /\ metadata = NoMetadata
    /\ edits = 0
    /\ tampers = 0
    /\ decThreads = << >>
    /\ decIdx = 0
    /\ decLastLen = 0
    /\ out = NoOutput
    /\ written = << >>
    /\ decResult = "none"
    /\ decFaults = {}
    /\ io = {}
    /\ ci \in ChunkIntermediates
    /\ parsed = "none"

NextParse ==
    \/ Deserialize
    \/ ParseDArg

SpecParse == InitParse /\ [][NextParse]_vars

Next ==
    \/ \E c \in ChunkLens : EncryptStart(c)
    \/ EncryptReadChunk
    \/ \E t \in Ids : EncryptWorker(t)
    \/ EncryptReturn
    \/ EncryptUnchunked
    \/ \E d \in FileLenDeltas : SetFileLen(metadata.file_len + d)
    \/ \E c \in ChunkLens : SetChunkLen(c)
    \/ \E i, j \in Ids : SwapChunks(i, j)
    \/ DropLastChunk
    \/ \E id \in Ids : FlipBit(id)
    \/ \E id \in Ids : RemoveObject(id)
    \/ \E checks \in BOOLEAN : DecryptStart(checks)
    \/ \E t \in Ids : DecryptWorker(t)
    \/ DecryptJoin
    \/ DecryptReturn

Spec == Init /\ [][Next]_vars

\* =================================================================
\* Properties
\* =================================================================
DecryptCalled == pc \in {"dec_join", "dec_done"}
Unmodified == edits = 0 /\ tampers = 0
PaddedLen(len) == ((len + 15) \div 16) * 16
ObjectsOnDisk == {id \in Ids : store[id].exists}
DecryptIo == {"create_output", "spawn_decrypt", "open_object", "write_output"}
FlippedChunks == {i \in DOMAIN metadata.chunks : store[metadata.chunks[i].id].flipped}
FailedWorkers == {t \in DOMAIN decThreads : decThreads[t].state \in {"err_io", "panic"}}

\* C1: chunked round trip.  Decrypting the unmodified Metadata and objects
\* of encrypt_file gives back the input, for every non-empty input and
\* every segment_len that is a multiple of 16 (stated here for the segment
\* lengths of two blocks and more, where no arithmetic fault interferes).
C1_ChunkedRoundTrip ==
    (pc = "dec_done" /\ mode = "chunked" /\ Unmodified
        /\ Len(input) > 0 /\ encArg >= 2 * BlockLen)
    => (decResult = "Ok" /\ out = input)

\* C2: unchunked round trip.  Decrypting the unmodified Metadata and object
\* of encrypt_file_unchunked gives back the input, for every non-empty
\* input, the lengths that are multiples of 16 included.
C2_UnchunkedRoundTrip ==
    (pc = "dec_done" /\ mode = "unchunked" /\ Unmodified /\ Len(input) > 0)
    => (decResult = "Ok" /\ out = input)

\* C3: tamper detection.  When an object named in the Metadata has a
\* flipped bit, decrypt_file ends with a cryptographic error returned to
\* its caller (stated here for the Metadata encryption returned, when it
\* passed validation).
C3_TamperIsCryptoError ==
    (pc = "dec_done" /\ edits = 0 /\ FlippedChunks # {} /\ decThreads # << >>)
    => decResult = "ErrCrypto"

\* C4: encrypt_file with a segment_len that is not a multiple of 16 returns
\* a validation error and does no I/O: input not opened, directory not
\* created, no object written, no worker spawned.
C4_BadSegmentLenNoIo ==
    (mode = "chunked" /\ encArg % 16 # 0)
    => /\ encResult = "ErrValidation"
       /\ pc = "enc_failed"
       /\ io = {}
       /\ ObjectsOnDisk = {}
       /\ encThreads = << >>
       /\ metadata = NoMetadata

C4_Witness ==
    mode = "chunked" /\ encArg = 8 /\ encResult = "ErrValidation" /\ Len(input) > 0

\* C5: decrypt_file given a Metadata whose number of segments differs from
\* (file_len + segment_len - 16) / (segment_len - 16) returns a validation
\* error before any I/O: output neither created nor written, no object
\* opened, no worker spawned.  The quotient is that of the naturals, which
\* exists for segment_len > 16.
C5_CountMismatchNoIo ==
    (DecryptCalled /\ metadata.chunk_len > 16
        /\ Len(metadata.chunks) #
             (metadata.file_len + metadata.chunk_len - 16) \div (metadata.chunk_len - 16))
    => /\ decResult = "ErrValidation"
       /\ pc = "dec_done"
       /\ out = NoOutput
       /\ written = << >>
       /\ decThreads = << >>
       /\ io \cap DecryptIo = {}

C5_Witness ==
    /\ DecryptCalled
    /\ metadata.chunk_len = 32
    /\ metadata.file_len = 40
    /\ Len(metadata.chunks) = 2
    /\ decResult = "ErrValidation"

\* C6 as claimed: encrypt_file_unchunked returns one segment, file_len the
\* input length and segment_len = padded_len, and writes one object of
\* padded_len + 16 bytes.
C6_SegmentLenIsPaddedLen ==
    (mode = "unchunked" /\ Unmodified)
    => /\ Len(metadata.chunks) = 1
       /\ metadata.file_len = Len(input)
       /\ metadata.chunk_len = PaddedLen(Len(input))
       /\ Cardinality(ObjectsOnDisk) = 1
       /\ \A id \in ObjectsOnDisk : ObjectLen(store[id]) = PaddedLen(Len(input)) + 16

\* C6 amended: encrypt_file_unchunked returns one segment, file_len the
\* input length and segment_len = padded_len + 16, the length of the one
\* object it writes (the zero-padded input sealed under the segment's key).
C6_SegmentLenIsObjectLen ==
    (mode = "unchunked" /\ Unmodified)
    => /\ encResult = "Ok"
       /\ Len(metadata.chunks) = 1
       /\ metadata.file_len = Len(input)
       /\ metadata.chunk_len = PaddedLen(Len(input)) + 16
       /\ ObjectsOnDisk = {metadata.chunks[1].id}
       /\ \A id \in ObjectsOnDisk :
            /\ ObjectLen(store[id]) = PaddedLen(Len(input)) + 16
            /\ store[id].key = metadata.chunks[1].key
            /\ store[id].pt = input \o Zeros(PaddedLen(Len(input)) - Len(input))

C6_Witness ==
    /\ mode = "unchunked"
    /\ Unmodified
    /\ Len(input) = 10
    /\ metadata.chunk_len = 32
    /\ \E id \in ObjectsOnDisk : ObjectLen(store[id]) = 32

\* C7: parsing a serialized segment returns a decode error whenever the id
\* text is not a UUID, or the key text is not base64 or decodes to a length
\* other than 16 bytes.
C7_MalformedIsDecodeError ==
    (parsed # "none"
        /\ (\/ ~UuidParseOk(ci.id)
            \/ ~Base64DecodeOk(ci.key)
            \/ Base64DecodedLen(ci.key) # 16))
    => parsed \in {"ErrMalformedId", "ErrMalformedKey", "ErrMalformedSpecifier"}

\* C8 as claimed: nothing is written to the output until every decrypt
\* worker has completed, so when a worker failed nothing has been written.
C8_NoWriteBeforeAllJoined ==
    /\ (written # << >>) => (\A t \in DOMAIN decThreads : decThreads[t].state # "running")
    /\ (pc = "dec_done" /\ FailedWorkers # {}) => written = << >>

\* C8 amended: the slice of segment i is written only after the workers of
\* segments 1..i have completed successfully (the orchestrator joins the
\* workers in Metadata order and writes after each join); when decrypt_file
\* ends on a failed worker, that worker is the first failed one and exactly
\* the segments before it have been written.
C8_WriteAfterOwnJoin ==
    /\ Len(written) = decIdx
    /\ \A k \in 1..Len(written) : \A t \in 1..k : decThreads[t].state = "ok"
    /\ (pc = "dec_done" /\ decResult = "ErrIo")
          => decThreads[decIdx + 1].state = "err_io"
    /\ (pc = "dec_done" /\ "worker_panic" \in decFaults)
          => decThreads[decIdx + 1].state = "panic"

C8_Witness ==
    /\ pc = "dec_done"
    /\ "worker_panic" \in decFaults
    /\ Len(written) = 1
    /\ decThreads[1].state = "ok"
    /\ decThreads[2].state = "panic"

\* C9: whatever the order in which the decrypt workers finish, the output
\* receives the segments in the order of the Metadata: every segment but
\* the last in full, the last cut to file_len % segment_len (segment_len
\* when that is 0); a Metadata with swapped segments succeeds as well and
\* gives the output with the segments swapped.
C9_LastLen ==
    IF metadata.file_len % metadata.chunk_len = 0
    THEN metadata.chunk_len
    ELSE metadata.file_len % metadata.chunk_len

C9_Segment(k) ==
    LET plain == store[metadata.chunks[k].id].pt
    IN IF k < Len(metadata.chunks) THEN plain ELSE SubSeq(plain, 1, C9_LastLen)

RECURSIVE C9_Output(_)
C9_Output(k) == IF k = 0 THEN << >> ELSE C9_Output(k - 1) \o C9_Segment(k)

C9_WritesInMetadataOrder ==
    (DecryptCalled /\ out # NoOutput)
    => /\ decIdx <= Len(metadata.chunks)
       /\ out = C9_Output(decIdx)
       /\ decResult = "Ok" => decIdx = Len(metadata.chunks)

C9_Witness ==
    /\ decResult = "Ok"
    /\ Len(written) = 2
    /\ metadata.chunks # encChunks
    /\ metadata.file_len = Len(input)
    /\ Len(written[2]) < Len(written[1])

\* C10: for a Metadata whose segment_len is a multiple of 16 (0 and 16
\* included) the length arithmetic of decrypt_file raises no fault: no
\* subtraction goes below zero and no division has a zero divisor.
C10_ArithmeticFaultFree ==
    (DecryptCalled /\ metadata.chunk_len % 16 = 0)
    => decFaults \cap {"sub_overflow", "div_zero"} = {}

====
